---------------------------- MODULE Spec2Model ----------------------------
(***************************************************************************)
(* Room presence and message lifecycle of the E2EE chat server             *)
(* (src/app.py, src/models.py).                                            *)
(*                                                                         *)
(* Every Socket.IO handler and HTTP route is one action.  The handlers run *)
(* on eventlet green threads: a handler runs to completion before the next *)
(* one starts, except in SpecConcurrentJoin and SpecConcurrentSeen, where  *)
(* the handlers are cut at their storage operations and interleave there,  *)
(* and in SpecFailure, where a commit may raise.                           *)
(*                                                                         *)
(* Time is counted in milliseconds since the epoch (the unit of the        *)
(* client's expires_at field); a datetime is the number of milliseconds    *)
(* it denotes and None is NULL.                                            *)
(***************************************************************************)
EXTENDS Integers, Sequences, FiniteSets, TLC

\* ------------------------------------------------------------------ bounds
\* Number of live connections (Socket.IO session ids).
NumSids == 2
\* Largest primary key the Message table hands out in the model.
MaxMsgs == 1
\* Number of clock ticks of one second each.
MaxTicks == 2

\* ------------------------------------------------------- program constants
\* timedelta(seconds=1), in milliseconds.
OneSecond == 1000
\* A missing value: Python's None, SQL's NULL.
NULL == -1
\* users.get(request.sid, "Unknown")
Unknown == "Unknown"
\* The HTTP status of a route's response: jsonify(...) alone, and the codes
\* the routes return with an error.
OK == 200
BadRequest == 400
NotFound == 404

Sids == 1 .. NumSids
Usernames == {"alice", "bob", "carol"}
Rooms == {"r1", "r2"}
\* "" is the falsy value of a missing or empty field of an event payload.
Missing == ""

VARIABLES
    users,        \* app.py:50   sid -> username            (dict)
    rooms_users,  \* app.py:51   room -> set of usernames   (dict of sets)
    joined,       \* Socket.IO's room membership (join_room, leave_room):
                  \* sid -> (room it is in -> username it joined it as)
    user_table,   \* models.User rows (the usernames)
    room_joins,   \* models.RoomJoin rows: <<room, username>> -> join_time
    messages,     \* models.Message rows: id -> row
    now,          \* the wall clock, datetime.now(timezone.utc)
    emitted,      \* the events the last handler emitted, in order
    last,         \* the handler that ran last, its arguments and its locals
    tasks         \* sid -> the handler the connection's green thread runs:
                  \* its position and its locals (app.py:45)

vars == <<users, rooms_users, joined, user_table, room_joins, messages,
          now, emitted, last, tasks>>

\* ----------------------------------------------------------------- helpers
\* The connections Socket.IO delivers an event for `room` to.
Members(room) == {s \in Sids : room \in DOMAIN joined[s]}

\* rooms_users.get(room, set())
RosterOf(room) == IF room \in DOMAIN rooms_users THEN rooms_users[room] ELSE {}

\* One emitted event.  room is Missing for an event sent to one connection;
\* to is the set of connections it is delivered to.
Event(name, room, to, id, roster) ==
    [name |-> name, room |-> room, to |-> to, id |-> id, users |-> roster]

\* emit(name, ..., room=room)
ToRoom(name, room, id, roster) == Event(name, room, Members(room), id, roster)

\* emit(name, ..., room=room, skip_sid=request.sid)
ToRoomSkip(name, room, sid, id, roster) ==
    Event(name, room, Members(room) \ {sid}, id, roster)

\* emit(name, ...) inside a handler: to the requesting connection only.
ToConnection(name, sid) == Event(name, Missing, {sid}, 0, {})

CountEvents(name) == Cardinality({i \in DOMAIN emitted : emitted[i].name = name})

\* The record of the handler that ran last.
NoOp ==
    [op |-> "init", sid |-> 0, username |-> Missing, room |-> Missing, id |-> 0,
     flag |-> FALSE, added |-> FALSE, prev |-> NULL, plaintext |-> <<>>,
     expires_at_ms |-> [kind |-> "absent", ms |-> 0], status |-> 0]

\* A green thread that runs no handler.  msg is the Message object the
\* handler's session holds, expired whether a commit has expired its
\* attributes; raced records that another connection's handler was under
\* way at some step of this one.
Idle ==
    [pc |-> "idle", op |-> "none", username |-> Missing, room |-> Missing,
     id |-> 0, found |-> FALSE, time |-> 0, readers |-> <<>>,
     expired |-> FALSE, raced |-> FALSE, announced |-> FALSE,
     msg |-> [room |-> Missing, read |-> FALSE]]

\* ------------------------------------------------------------------- Init
Init ==
    /\ users = <<>>
    /\ rooms_users = <<>>
    /\ joined = [s \in Sids |-> <<>>]
    /\ user_table = {}
    /\ room_joins = <<>>
    /\ messages = <<>>
    /\ now = 0
    /\ emitted = <<>>
    /\ last = NoOp
    /\ tasks = [s \in Sids |-> Idle]

\* The record of a handler run: its name, the connection it ran for, the
\* username, room and message id it worked on.
Ran(op, sid, username, room, id) ==
    [NoOp EXCEPT !.op = op, !.sid = sid, !.username = username, !.room = room,
                 !.id = id]

\* The elements of a list.
Range(seq) == {seq[i] : i \in DOMAIN seq}

\* f with key k set to v (dict assignment, INSERT or UPDATE of one row).
Put(f, k, v) == [x \in DOMAIN f \cup {k} |-> IF x = k THEN v ELSE f[x]]

\* f without key k (dict.pop, DELETE of one row).
Drop(f, k) == [x \in DOMAIN f \ {k} |-> f[x]]

\* RoomJoin.query.filter_by(room=room, username=username).first(): the
\* join_time of the row, NULL when there is none.
JoinTime(room, username) ==
    IF <<room, username>> \in DOMAIN room_joins
    THEN room_joins[<<room, username>>] ELSE NULL

\* ------------------------------------------------------------ connections
\* on_join announcing every join, the test of line 323 left out.
JoinStatusEventsAlways(sid, username, room, already_in_room) ==
    <<ToRoomSkip("status", room, sid, 0, {})>>

\* on_join, lines 317-325: the roster update and what it announces.
\* already_in_room is the handler's local of that name.
JoinStatusEvents(sid, username, room, already_in_room) ==
    IF ~already_in_room
    THEN <<ToRoomSkip("status", room, sid, 0, {})>>
    ELSE <<>>

on_join(sid, username, room) ==
    IF username = Missing \/ room = Missing
    THEN /\ last' = Ran("join_ignored", sid, username, room, 0)
         /\ emitted' = <<>>
         /\ UNCHANGED <<tasks, users, rooms_users, joined, user_table, room_joins,
                        messages, now>>
    ELSE LET roster == IF room \in DOMAIN rooms_users
                       THEN rooms_users[room] ELSE {}
             already_in_room == username \in roster
         IN /\ user_table' = user_table \cup {username}
            /\ room_joins' = Put(room_joins, <<room, username>>, now)
            /\ joined' = [joined EXCEPT ![sid] = Put(@, room, username)]
            /\ users' = Put(users, sid, username)
            /\ rooms_users' = Put(rooms_users, room, roster \cup {username})
            /\ emitted' = JoinStatusEvents(sid, username, room, already_in_room)
                          \o <<Event("online_users", room,
                                     Members(room) \cup {sid}, 0,
                                     roster \cup {username})>>
            /\ last' = [Ran("join", sid, username, room, 0)
                          EXCEPT !.flag = already_in_room,
                                 !.prev = JoinTime(room, username)]
            /\ UNCHANGED <<tasks, messages, now>>

\* on_leave, lines 327-340.
on_leave(sid, username, room) ==
    IF username = Missing \/ room = Missing
    THEN /\ last' = Ran("leave_ignored", sid, username, room, 0)
         /\ emitted' = <<>>
         /\ UNCHANGED <<tasks, users, rooms_users, joined, user_table, room_joins,
                        messages, now>>
    ELSE LET listed == room \in DOMAIN rooms_users /\ username \in rooms_users[room]
             left == Members(room) \ {sid}
         IN /\ joined' = [joined EXCEPT ![sid] = Drop(@, room)]
            /\ users' = Drop(users, sid)
            /\ IF listed
               THEN /\ rooms_users' = [rooms_users EXCEPT ![room] = @ \ {username}]
                    /\ emitted' = <<Event("online_users", room, left, 0,
                                          rooms_users[room] \ {username}),
                                    Event("status", room, left \ {sid}, 0, {})>>
               ELSE /\ rooms_users' = rooms_users
                    /\ emitted' = <<>>
            /\ last' = [Ran("leave", sid, username, room, 0)
                          EXCEPT !.flag = listed]
            /\ UNCHANGED <<tasks, user_table, room_joins, messages, now>>

\* on_disconnect refreshing every room, not only those it changed.
RoomsToUpdateAll(bound, username) == DOMAIN rooms_users

\* The rooms on_disconnect touches for a username: every room whose roster
\* lists it (lines 282-285).  No username bound: none.
RoomsToUpdate(bound, username) ==
    IF bound
    THEN {r \in DOMAIN rooms_users : username \in rooms_users[r]}
    ELSE {}

\* A set as a sequence, in some order (iteration over a dict or a list).
RECURSIVE SeqOf(_)
SeqOf(S) ==
    IF S = {} THEN <<>>
    ELSE LET x == CHOOSE y \in S : TRUE IN <<x>> \o SeqOf(S \ {x})

\* on_disconnect, lines 276-288.  Socket.IO then drops the connection from
\* all its rooms.
on_disconnect(sid) ==
    LET bound == sid \in DOMAIN users
        username == IF bound THEN users[sid] ELSE Missing
        rooms_to_update == RoomsToUpdate(bound, username)
        after == [r \in DOMAIN rooms_users |->
                    IF r \in rooms_to_update
                    THEN rooms_users[r] \ {username} ELSE rooms_users[r]]
        order == SeqOf(rooms_to_update)
    IN /\ users' = Drop(users, sid)
       /\ rooms_users' = after
       /\ joined' = [joined EXCEPT ![sid] = <<>>]
       /\ emitted' = [i \in DOMAIN order |->
                        Event("online_users", order[i],
                              Members(order[i]) \ {sid}, 0, after[order[i]])]
       /\ last' = [Ran("disconnect", sid, username, Missing, 0)
                     EXCEPT !.flag = bound]
       /\ UNCHANGED <<tasks, user_table, room_joins, messages, now>>

\* ---------------------------------------------------------------- clock
\* One second passes.
Tick ==
    /\ now + OneSecond <= MaxTicks * OneSecond
    /\ now' = now + OneSecond
    /\ emitted' = <<>>
    /\ last' = Ran("tick", 0, Missing, Missing, 0)
    /\ UNCHANGED <<tasks, users, rooms_users, joined, user_table, room_joins,
                   messages>>

\* ------------------------------------------------------- content safety
\* Text is a sequence of one-character strings.
Uppercase == <<"A", "B", "C", "D", "E", "F", "G", "H", "I", "J", "K", "L", "M",
               "N", "O", "P", "Q", "R", "S", "T", "U", "V", "W", "X", "Y", "Z">>
Lowercase == <<"a", "b", "c", "d", "e", "f", "g", "h", "i", "j", "k", "l", "m",
               "n", "o", "p", "q", "r", "s", "t", "u", "v", "w", "x", "y", "z">>

\* str.lower() on the upper-case letters.
LowerOf == [c \in Range(Uppercase) |->
              Lowercase[CHOOSE i \in DOMAIN Uppercase : Uppercase[i] = c]]

\* str.lower() on one character.
LowerChar(c) == IF c \in DOMAIN LowerOf THEN LowerOf[c] ELSE c

\* str.lower()
Lower(text) == [i \in DOMAIN text |-> LowerChar(text[i])]

\* kw in text
Contains(text, kw) ==
    \E i \in 1 .. (Len(text) - Len(kw) + 1) :
        SubSeq(text, i, i + Len(kw) - 1) = kw

unsafe_keywords ==
    { <<"m", "a", "l", "w", "a", "r", "e">>,
      <<"p", "h", "i", "s", "h", "i", "n", "g">>,
      <<"v", "i", "r", "u", "s">>,
      <<"h", "a", "c", "k">>,
      <<"a", "b", "u", "s", "e">> }

\* is_content_safe with all() in place of any().
is_content_safe_all(text) ==
    ~ \A kw \in unsafe_keywords : Contains(Lower(text), kw)

\* is_content_safe, lines 23-26.  A missing text is the empty text.
is_content_safe(text) ==
    ~ \E kw \in unsafe_keywords : Contains(Lower(text), kw)

\* --------------------------------------------------------------- messages
\* The expires_at field of a message payload: absent, a number of
\* milliseconds, or a value int() or datetime.fromtimestamp() rejects.
Expiry(kind, ms) == [kind |-> kind, ms |-> ms]

\* handle_message storing the supplied instant as it is, lines 358-359 left out.
NormalizeExpiryNoClamp(expires_at_ms, t) ==
    IF expires_at_ms.kind = "absent"
       \/ (expires_at_ms.kind = "number" /\ expires_at_ms.ms = 0)
    THEN NULL
    ELSE IF expires_at_ms.kind = "invalid"
    THEN NULL
    ELSE expires_at_ms.ms

\* handle_message, lines 353-361: the expiry instant that is stored.
NormalizeExpiry(expires_at_ms, t) ==
    IF expires_at_ms.kind = "absent"
       \/ (expires_at_ms.kind = "number" /\ expires_at_ms.ms = 0)
    THEN NULL
    ELSE IF expires_at_ms.kind = "invalid"
    THEN NULL
    ELSE IF expires_at_ms.ms <= t
    THEN t + OneSecond
    ELSE expires_at_ms.ms

\* The primary key SQLite gives the next row: one more than the largest.
RECURSIVE MaxOf(_)
MaxOf(S) ==
    IF S = {} THEN 0
    ELSE LET x == CHOOSE y \in S : TRUE
             m == MaxOf(S \ {x})
         IN IF x > m THEN x ELSE m

NextId == MaxOf(DOMAIN messages) + 1

\* The username a connection last entered a room as and has not left, for
\* a connection that users does not hold.
UsernameOfJoined(sid) ==
    IF sid \in DOMAIN users THEN users[sid]
    ELSE IF joined[sid] # <<>>
    THEN joined[sid][CHOOSE room \in DOMAIN joined[sid] : TRUE]
    ELSE Unknown

\* users.get(request.sid, "Unknown")
UsernameOf(sid) == IF sid \in DOMAIN users THEN users[sid] ELSE Unknown

\* Message(...), lines 368-380, with dor, rar for delete_on_read and
\* require_all_read.  timestamp has no default and is not set;
\* created is the instant `now` of line 353, which the row does not hold.
NewMessage(room, username, content, expires_at, dor, rar) ==
    [room |-> room, username |-> username, content |-> content,
     expires_at |-> expires_at, delivered |-> TRUE, read |-> FALSE,
     readers |-> <<>>, delete_on_read |-> dor,
     require_all_read |-> rar, timestamp |-> NULL,
     created |-> now]

\* handle_message, lines 342-400.
handle_message(sid, room, content, expires_at_ms, plaintext, dor, rar) ==
    LET username == UsernameOf(sid)
        expires_at == NormalizeExpiry(expires_at_ms, now)
        id == NextId
        ran == [Ran("message", sid, username, room, id)
                  EXCEPT !.expires_at_ms = expires_at_ms,
                         !.plaintext = plaintext]
    IN IF plaintext # <<>> /\ ~is_content_safe(plaintext)
       THEN /\ emitted' = <<ToConnection("message_rejected", sid)>>
            /\ last' = [ran EXCEPT !.op = "message_rejected", !.id = 0]
            /\ UNCHANGED <<tasks, users, rooms_users, joined, user_table,
                           room_joins, messages, now>>
       ELSE /\ id <= MaxMsgs
            /\ messages' = Put(messages, id,
                               NewMessage(room, username, content, expires_at,
                                          dor, rar))
            /\ emitted' = <<ToRoom("message", room, id, {})>>
            /\ last' = ran
            /\ UNCHANGED <<tasks, users, rooms_users, joined, user_table,
                           room_joins, now>>

\* message_seen appending without the test of line 411.
AddReaderAlways(readers, username) == Append(readers, username)

\* message_seen, lines 410-414: the readers list after the acknowledgment.
AddReader(readers, username) ==
    IF username \notin Range(readers) THEN Append(readers, username) ELSE readers

\* message_seen without the test of line 425 that the roster is not empty.
DeletesOnReadEmptyRoster(msg, username, readers) ==
    /\ msg.delete_on_read
    /\ IF ~msg.require_all_read
       THEN username # msg.username
       ELSE RosterOf(msg.room) \subseteq (Range(readers) \cup {msg.username})

\* message_seen taking the branch of line 418 whatever require_all_read is.
DeletesOnReadFirstReader(msg, username, readers) ==
    msg.delete_on_read /\ username # msg.username

\* message_seen, lines 416-429: whether the acknowledgment deletes the row.
\* readers is the list after the acknowledgment.
DeletesOnRead(msg, username, readers) ==
    /\ msg.delete_on_read
    /\ IF ~msg.require_all_read
       THEN username # msg.username
       ELSE LET room_users_set == RosterOf(msg.room)
            IN /\ room_users_set # {}
               /\ room_users_set \subseteq (Range(readers) \cup {msg.username})

\* message_seen setting and announcing the read flag whatever it was.
SetsReadAlways(msg) == TRUE

\* message_seen, lines 431-434: whether the read flag is set and announced.
SetsRead(msg) == ~msg.read

\* message_seen, lines 402-434.
message_seen(sid, msg_id) ==
    LET username == UsernameOf(sid)
    IN IF msg_id \notin DOMAIN messages
       THEN /\ emitted' = <<>>
            /\ last' = Ran("seen_missing", sid, username, Missing, msg_id)
            /\ UNCHANGED <<tasks, users, rooms_users, joined, user_table,
                           room_joins, messages, now>>
       ELSE LET msg == messages[msg_id]
                readers == AddReader(msg.readers, username)
                ran == [Ran("seen", sid, username, msg.room, msg_id)
                          EXCEPT !.added = username \notin Range(msg.readers)]
            IN /\ IF DeletesOnRead(msg, username, readers)
                  THEN /\ messages' = Drop(messages, msg_id)
                       /\ emitted' = <<ToRoom("delete_message", msg.room,
                                              msg_id, {})>>
                       /\ last' = [ran EXCEPT !.flag = TRUE]
                  ELSE IF SetsRead(msg)
                  THEN /\ messages' = [messages EXCEPT
                                         ![msg_id].readers = readers,
                                         ![msg_id].read = TRUE]
                       /\ emitted' = <<ToRoom("message_read", msg.room,
                                              msg_id, {})>>
                       /\ last' = ran
                  ELSE /\ messages' = [messages EXCEPT
                                         ![msg_id].readers = readers]
                       /\ emitted' = <<>>
                       /\ last' = ran
               /\ UNCHANGED <<tasks, users, rooms_users, joined, user_table,
                              room_joins, now>>

\* The sweeper's query with < in place of <=.
ExpiredIdsStrict(t) ==
    {id \in DOMAIN messages :
        messages[id].expires_at # NULL /\ messages[id].expires_at < t}

\* The sweeper's query without the comparison with now.
ExpiredIdsAnyExpiry(t) ==
    {id \in DOMAIN messages : messages[id].expires_at # NULL}

\* delete_expired_messages, line 61: the rows the query selects.
ExpiredIds(t) ==
    {id \in DOMAIN messages :
        messages[id].expires_at # NULL /\ messages[id].expires_at <= t}

\* delete_expired_messages, lines 59-64.
delete_expired_messages ==
    LET expired_msgs == ExpiredIds(now)
    IN /\ messages' = [id \in DOMAIN messages \ expired_msgs |-> messages[id]]
       /\ emitted' = <<>>
       /\ last' = [Ran("sweep", 0, Missing, Missing, 0)
                     EXCEPT !.flag = expired_msgs # {}]
       /\ UNCHANGED <<tasks, users, rooms_users, joined, user_table, room_joins,
                      now>>

\* ------------------------------------------------------------------ routes
\* The record of a route's run on message msg_id and the status it returned.
Routed(op, room, msg_id, status) ==
    [Ran(op, 0, Missing, room, msg_id) EXCEPT !.status = status]

\* delete_message, lines 235-243.
delete_message(msg_id) ==
    IF msg_id \notin DOMAIN messages
    THEN /\ last' = Routed("delete_missing", Missing, msg_id, NotFound)
         /\ emitted' = <<>>
         /\ UNCHANGED <<tasks, users, rooms_users, joined, user_table, room_joins,
                        messages, now>>
    ELSE LET msg == messages[msg_id]
         IN /\ messages' = Drop(messages, msg_id)
            /\ emitted' = <<ToRoom("delete_message", msg.room, msg_id, {})>>
            /\ last' = Routed("delete", msg.room, msg_id, OK)
            /\ UNCHANGED <<tasks, users, rooms_users, joined, user_table,
                           room_joins, now>>

\* json.dumps(encrypted_map): the text stored in Message.content.
json_dumps(encrypted_map) == <<"json", encrypted_map>>

\* edit_message resetting the read receipt with the content.
EditedResetRead(msg, encrypted_map) ==
    [msg EXCEPT !.content = json_dumps(encrypted_map), !.read = FALSE]

\* edit_message, line 254: the row after the edit.
Edited(msg, encrypted_map) ==
    [msg EXCEPT !.content = json_dumps(encrypted_map)]

\* edit_message, lines 245-257.  encrypted_map is Missing when the request
\* has no encrypted_map and no encryptedmap, or an empty one.
edit_message(msg_id, encrypted_map) ==
    IF encrypted_map = Missing
    THEN /\ last' = Routed("edit_empty", Missing, msg_id, BadRequest)
         /\ emitted' = <<>>
         /\ UNCHANGED <<tasks, users, rooms_users, joined, user_table, room_joins,
                        messages, now>>
    ELSE IF msg_id \notin DOMAIN messages
    THEN /\ last' = Routed("edit_missing", Missing, msg_id, NotFound)
         /\ emitted' = <<>>
         /\ UNCHANGED <<tasks, users, rooms_users, joined, user_table, room_joins,
                        messages, now>>
    ELSE LET msg == messages[msg_id]
         IN /\ messages' = [messages EXCEPT
                              ![msg_id] = Edited(msg, encrypted_map)]
            /\ emitted' = <<ToRoom("editmessage", msg.room, msg_id, {})>>
            /\ last' = Routed("edit", msg.room, msg_id, OK)
            /\ UNCHANGED <<tasks, users, rooms_users, joined, user_table,
                           room_joins, now>>

\* mark_read, lines 259-267.
mark_read(msg_id) ==
    IF msg_id \notin DOMAIN messages
    THEN /\ last' = Routed("mark_read_missing", Missing, msg_id, NotFound)
         /\ emitted' = <<>>
         /\ UNCHANGED <<tasks, users, rooms_users, joined, user_table, room_joins,
                        messages, now>>
    ELSE LET msg == messages[msg_id]
         IN /\ messages' = [messages EXCEPT ![msg_id].read = TRUE]
            /\ emitted' = <<ToRoom("message_read", msg.room, msg_id, {})>>
            /\ last' = Routed("mark_read", msg.room, msg_id, OK)
            /\ UNCHANGED <<tasks, users, rooms_users, joined, user_table,
                           room_joins, now>>

\* ---------------------------------------------------------------- history
\* Message.timestamp >= min_time in SQL: a NULL timestamp matches nothing.
NotBefore(timestamp, min_time) == timestamp # NULL /\ timestamp >= min_time

\* get_messages, lines 177-186: the rows the query selects.  username is
\* Missing when the request has no username argument.
SelectedIds(room, username) ==
    IF username # Missing
    THEN IF JoinTime(room, username) # NULL
         THEN {id \in DOMAIN messages :
                 /\ messages[id].room = room
                 /\ NotBefore(messages[id].timestamp, JoinTime(room, username))}
         ELSE {}
    ELSE {id \in DOMAIN messages : messages[id].room = room}

\* get_messages, lines 175-200: the response.  m.timestamp.isoformat() of
\* line 194 raises AttributeError on a row whose timestamp is None, and the
\* request ends with a server error.
get_messages(room, username) ==
    LET msgs == SelectedIds(room, username)
    IN IF \E id \in msgs : messages[id].timestamp = NULL
       THEN [status |-> "error", ids |-> {}]
       ELSE [status |-> "ok", ids |-> msgs]

\* ---------------------------------------------------- interleaved handlers
\* Every event is handled on a green thread of its own (async_mode =
\* "eventlet", line 45), and a green thread gives way to the others where it
\* blocks.  The handlers below are the handlers above cut at their storage
\* operations, the queries and the commits: one step is one storage
\* operation with the code that leads to it, and the steps of the handlers
\* of different connections interleave.  A connection runs one handler.

\* The connection's handler has started and has not ended.
InFlight(sid) == tasks[sid].pc \notin {"idle", "done", "ignored", "failed"}

\* tasks after a step of the handler of sid that leaves it as task.
Stepped(sid, task) ==
    LET racing == \E other \in Sids \ {sid} : InFlight(other)
    IN [s \in Sids |->
          IF s = sid THEN [task EXCEPT !.raced = @ \/ racing]
          ELSE IF InFlight(s) THEN [tasks[s] EXCEPT !.raced = TRUE]
          ELSE tasks[s]]

\* The record of a step of the handler of sid.
StepOf(op, sid) ==
    Ran(op, sid, tasks[sid].username, tasks[sid].room, tasks[sid].id)

\* on_join, lines 292-298: the payload is read and the user is looked up.
join_query_user(sid, username, room) ==
    /\ tasks[sid].pc = "idle"
    /\ tasks' = Stepped(sid,
                   [Idle EXCEPT !.op = "join",
                                !.pc = IF username = Missing \/ room = Missing
                                       THEN "ignored"
                                       ELSE IF username \in user_table
                                       THEN "query_record"
                                       ELSE "commit_user",
                                !.username = username, !.room = room])
    /\ emitted' = <<>>
    /\ last' = Ran("join_query_user", sid, username, room, 0)
    /\ UNCHANGED <<users, rooms_users, joined, user_table, room_joins,
                   messages, now>>

\* on_join, lines 303-307: the user that was not found is inserted.  The
\* commit raises IntegrityError when the username has been inserted since
\* (models.py line 11), and the handler ends there.
join_commit_user(sid) ==
    LET t == tasks[sid]
        taken == t.username \in user_table
    IN /\ t.op = "join" /\ t.pc = "commit_user"
       /\ user_table' = user_table \cup {t.username}
       /\ tasks' = Stepped(sid, [t EXCEPT !.pc = IF taken THEN "failed"
                                                ELSE "query_record"])
       /\ emitted' = <<>>
       /\ last' = StepOf("join_commit_user", sid)
       /\ UNCHANGED <<users, rooms_users, joined, room_joins, messages, now>>

\* on_join, lines 309-310: now is taken and the RoomJoin row looked up.
join_query_record(sid) ==
    LET t == tasks[sid]
    IN /\ t.op = "join" /\ t.pc = "query_record"
       /\ tasks' = Stepped(sid,
                      [t EXCEPT !.pc = "commit_record", !.time = now,
                                !.found = JoinTime(t.room, t.username) # NULL])
       /\ emitted' = <<>>
       /\ last' = StepOf("join_query_record", sid)
       /\ UNCHANGED <<users, rooms_users, joined, user_table, room_joins,
                      messages, now>>

\* on_join, lines 311-315: the row is updated, or inserted when none was
\* found.  The commit of the insert raises IntegrityError when the row has
\* been inserted since (models.py line 41), and the handler ends there.
join_commit_record(sid) ==
    LET t == tasks[sid]
        taken == ~t.found /\ JoinTime(t.room, t.username) # NULL
    IN /\ t.op = "join" /\ t.pc = "commit_record"
       /\ room_joins' = IF taken THEN room_joins
                        ELSE Put(room_joins, <<t.room, t.username>>, t.time)
       /\ tasks' = Stepped(sid, [t EXCEPT !.pc = IF taken THEN "failed"
                                                ELSE "enter"])
       /\ emitted' = <<>>
       /\ last' = StepOf("join_commit_record", sid)
       /\ UNCHANGED <<users, rooms_users, joined, user_table, messages, now>>

\* on_join replacing the roster where it is to add to it.
EnteredAlone(roster, username) == {username}

\* on_join, lines 319-322: the roster with the username added.
Entered(roster, username) == roster \cup {username}

\* on_join, lines 317-325: no storage operation is left, and the connection
\* enters the room in one step.
join_enter(sid) ==
    LET t == tasks[sid]
        roster == RosterOf(t.room)
        already_in_room == t.username \in roster
        status == JoinStatusEvents(sid, t.username, t.room, already_in_room)
    IN /\ t.op = "join" /\ t.pc = "enter"
       /\ joined' = [joined EXCEPT ![sid] = Put(@, t.room, t.username)]
       /\ users' = Put(users, sid, t.username)
       /\ rooms_users' = Put(rooms_users, t.room, Entered(roster, t.username))
       /\ emitted' = status \o <<Event("online_users", t.room,
                                       Members(t.room) \cup {sid}, 0,
                                       Entered(roster, t.username))>>
       /\ tasks' = Stepped(sid, [t EXCEPT !.pc = "done",
                                          !.announced = status # <<>>])
       /\ last' = [StepOf("join", sid)
                     EXCEPT !.flag = already_in_room,
                            !.added = tasks'[sid].raced]
       /\ UNCHANGED <<user_table, room_joins, messages, now>>

\* message_seen, lines 404-413: the message is looked up and the
\* acknowledging username added to the list of its readers, in memory.
seen_query(sid, msg_id) ==
    LET username == UsernameOf(sid)
        found == msg_id \in DOMAIN messages
        msg == messages[msg_id]
        added == username \notin Range(msg.readers)
    IN /\ tasks[sid].pc = "idle"
       /\ tasks' = Stepped(sid,
                      IF ~found
                      THEN [Idle EXCEPT !.op = "seen", !.pc = "ignored",
                                        !.username = username, !.id = msg_id]
                      ELSE [Idle EXCEPT !.op = "seen",
                                        !.pc = IF added THEN "commit_readers"
                                               ELSE "decide",
                                        !.username = username, !.id = msg_id,
                                        !.room = msg.room, !.msg = msg,
                                        !.readers = AddReader(msg.readers,
                                                              username)])
       /\ emitted' = <<>>
       /\ last' = Ran("seen_query", sid, username, Missing, msg_id)
       /\ UNCHANGED <<users, rooms_users, joined, user_table, room_joins,
                      messages, now>>

\* message_seen, line 414: the list of readers is written to the row, and
\* the commit expires the attributes of msg.  The commit raises
\* StaleDataError when the row has been deleted since.
seen_commit_readers(sid) ==
    LET t == tasks[sid]
        stored == t.id \in DOMAIN messages
    IN /\ t.op = "seen" /\ t.pc = "commit_readers"
       /\ messages' = IF stored
                      THEN [messages EXCEPT ![t.id].readers = t.readers]
                      ELSE messages
       /\ tasks' = Stepped(sid, [t EXCEPT !.pc = IF stored THEN "decide"
                                                ELSE "failed",
                                          !.expired = stored])
       /\ emitted' = <<>>
       /\ last' = StepOf("seen_commit_readers", sid)
       /\ UNCHANGED <<users, rooms_users, joined, user_table, room_joins, now>>

\* message_seen, lines 416-434.  Expired attributes are read again from the
\* row, which raises ObjectDeletedError when the row has been deleted; the
\* deletion of a row that is gone passes, the update of one raises
\* StaleDataError.
seen_decide(sid) ==
    LET t == tasks[sid]
        stored == t.id \in DOMAIN messages
        msg == IF t.expired /\ stored THEN messages[t.id] ELSE t.msg
        deletes == DeletesOnRead(msg, t.username, t.readers)
        ran == [StepOf("seen", sid)
                  EXCEPT !.added = Stepped(sid, t)[sid].raced]
    IN /\ t.op = "seen" /\ t.pc = "decide"
       /\ IF ~stored /\ (t.expired \/ (~deletes /\ SetsRead(msg)))
          THEN /\ messages' = messages
               /\ emitted' = <<>>
               /\ tasks' = Stepped(sid, [t EXCEPT !.pc = "failed"])
               /\ last' = [ran EXCEPT !.op = "seen_failed"]
          ELSE IF deletes
          THEN /\ messages' = Drop(messages, t.id)
               /\ emitted' = <<ToRoom("delete_message", msg.room, t.id, {})>>
               /\ tasks' = Stepped(sid, [t EXCEPT !.pc = "done"])
               /\ last' = [ran EXCEPT !.flag = TRUE]
          ELSE IF SetsRead(msg)
          THEN /\ messages' = [messages EXCEPT ![t.id].read = TRUE]
               /\ emitted' = <<ToRoom("message_read", msg.room, t.id, {})>>
               /\ tasks' = Stepped(sid, [t EXCEPT !.pc = "done"])
               /\ last' = ran
          ELSE /\ messages' = messages
               /\ emitted' = <<>>
               /\ tasks' = Stepped(sid, [t EXCEPT !.pc = "done"])
               /\ last' = ran
       /\ UNCHANGED <<users, rooms_users, joined, user_table, room_joins, now>>

\* -------------------------------------------------------- storage failure
\* db.session.commit() raises when the write cannot be made.  The exception
\* ends the handler where it is: no line after the commit runs, every commit
\* before it stands, and the changes of the failed one are dropped with the
\* session.

\* handle_message, lines 342-400, when the commit of line 382 raises.
handle_message_fails(sid, room) ==
    /\ emitted' = <<>>
    /\ last' = Ran("message_failed", sid, UsernameOf(sid), room, 0)
    /\ UNCHANGED <<tasks, users, rooms_users, joined, user_table, room_joins,
                   messages, now>>

\* The commits message_seen makes on a message, in order: the lines they are
\* on.  readers is the list after the acknowledgment.
SeenCommits(msg, username, readers) ==
    (IF username \notin Range(msg.readers) THEN <<414>> ELSE <<>>)
    \o (IF DeletesOnRead(msg, username, readers)
        THEN (IF msg.require_all_read THEN <<427>> ELSE <<420>>)
        ELSE IF SetsRead(msg) THEN <<433>> ELSE <<>>)

\* message_seen, lines 402-434, when its commit number n raises.
message_seen_fails(sid, msg_id, n) ==
    LET username == UsernameOf(sid)
        msg == messages[msg_id]
        readers == AddReader(msg.readers, username)
        commits == SeenCommits(msg, username, readers)
    IN /\ msg_id \in DOMAIN messages
       /\ n \in DOMAIN commits
       /\ messages' = IF n > 1
                      THEN [messages EXCEPT ![msg_id].readers = readers]
                      ELSE messages
       /\ emitted' = <<>>
       /\ last' = [Ran("seen_failed", sid, username, msg.room, msg_id)
                     EXCEPT !.prev = commits[n]]
       /\ UNCHANGED <<tasks, users, rooms_users, joined, user_table, room_joins, now>>

\* delete_message, lines 235-243, when the commit of line 241 raises, and
\* edit_message, lines 245-257, when the commit of line 255 raises: the
\* route returns no response.
route_fails(op, msg_id) ==
    /\ msg_id \in DOMAIN messages
    /\ emitted' = <<>>
    /\ last' = Routed(op, messages[msg_id].room, msg_id, NULL)
    /\ UNCHANGED <<tasks, users, rooms_users, joined, user_table, room_joins,
                   messages, now>>

\* --------------------------------------------------------- specifications
\* The payloads a client sends with join and leave: alice in two rooms, bob
\* in one, and one payload with each field missing.
JoinPayloads ==
    {<<"alice", "r1">>, <<"alice", "r2">>, <<"bob", "r1">>,
     <<Missing, "r1">>, <<"alice", Missing>>}

PresenceNext ==
    \E sid \in Sids :
        \/ \E p \in JoinPayloads : on_join(sid, p[1], p[2])
        \/ \E p \in JoinPayloads : on_leave(sid, p[1], p[2])
        \/ on_disconnect(sid)

SpecPresence == Init /\ [][PresenceNext]_vars

\* Acknowledgments: three users enter one room, post ephemeral and plain
\* messages there and acknowledge them.  An acknowledgment reads and
\* writes one row only, so one message is in the store at a time.
SeenJoinPayloads == Usernames \X {"r1"}

SeenNext ==
    \E sid \in Sids :
        \/ \E p \in SeenJoinPayloads : on_join(sid, p[1], p[2])
        \/ \E delete_on_read, require_all_read \in BOOLEAN :
              /\ messages = <<>>
              /\ handle_message(sid, "r1", "e1", Expiry("absent", 0), <<>>,
                                delete_on_read, require_all_read)
        \/ \E msg_id \in 1 .. MaxMsgs : message_seen(sid, msg_id)

SpecSeen == Init /\ [][SeenNext]_vars

\* Creation and expiry: messages with every kind of expiry and preview are
\* posted while the clock runs and the sweeper fires.
ExpiryPayloads ==
    {Expiry("absent", 0), Expiry("invalid", 0), Expiry("number", 0),
     Expiry("number", 0 - OneSecond)}
    \cup {Expiry("number", k * OneSecond) : k \in 1 .. (MaxTicks + 1)}

Plaintexts ==
    { <<>>,
      <<"h", "i">>,
      <<"h", "a", "c">>,
      <<"H", "a", "c", "k">>,
      <<"p", "h", "i", "s", "h", "i", "n", "g">>,
      <<"a", " ", "v", "i", "r", "u", "s">> }

StoreNext ==
    \/ Tick
    \/ delete_expired_messages
    \/ \E sid \in Sids :
        \/ \E e \in ExpiryPayloads, text \in Plaintexts :
              handle_message(sid, "r1", "e1", e, text, FALSE, FALSE)

SpecStore == Init /\ [][StoreNext]_vars

\* History: two users enter and re-enter one room while the clock runs and
\* messages are posted there.
HistoryJoinPayloads == {"alice", "bob"} \X {"r1"}

HistoryNext ==
    \/ Tick
    \/ \E sid \in Sids :
        \/ \E p \in HistoryJoinPayloads : on_join(sid, p[1], p[2])
        \/ handle_message(sid, "r1", "e1", Expiry("absent", 0), <<>>,
                          FALSE, FALSE)

SpecHistory == Init /\ [][HistoryNext]_vars

\* Lifecycle: one user enters a room; its connection and an unnamed one
\* post plain and ephemeral messages, with and without an expiry, and
\* acknowledge them; messages are edited, marked read and deleted over the
\* routes, by ids in the store and not in it, while the clock runs and the
\* sweeper fires.
LifecycleJoinPayloads == {<<"alice", "r1">>}
LifecycleExpiryPayloads == {Expiry("absent", 0), Expiry("number", OneSecond)}
EditPayloads == {Missing, "e2"}

LifecycleNext ==
    \/ Tick
    \/ delete_expired_messages
    \/ \E sid \in Sids :
        \/ \E p \in LifecycleJoinPayloads : on_join(sid, p[1], p[2])
        \/ \E e \in LifecycleExpiryPayloads, delete_on_read \in BOOLEAN :
              handle_message(sid, "r1", json_dumps("e1"), e, <<>>,
                             delete_on_read, FALSE)
        \/ \E msg_id \in 1 .. MaxMsgs : message_seen(sid, msg_id)
    \/ \E msg_id \in 1 .. MaxMsgs :
        \/ delete_message(msg_id)
        \/ \E encrypted_map \in EditPayloads :
              edit_message(msg_id, encrypted_map)
        \/ mark_read(msg_id)

SpecLifecycle == Init /\ [][LifecycleNext]_vars

\* Creation and edit: one user enters a room; its connection and an unnamed
\* one post messages, plain ones and ephemeral ones that every user online
\* must read, with and without an expiry, and acknowledge them; messages
\* are edited over the route, by ids in the store and not in it, with and
\* without a content.
EditNext ==
    \/ \E sid \in Sids :
        \/ \E p \in LifecycleJoinPayloads : on_join(sid, p[1], p[2])
        \/ \E e \in LifecycleExpiryPayloads, require_all_read \in BOOLEAN :
              handle_message(sid, "r1", json_dumps("e1"), e, <<>>,
                             require_all_read, require_all_read)
        \/ \E msg_id \in 1 .. MaxMsgs : message_seen(sid, msg_id)
    \/ \E msg_id \in 1 .. MaxMsgs, encrypted_map \in EditPayloads :
          edit_message(msg_id, encrypted_map)

SpecEdit == Init /\ [][EditNext]_vars

\* Concurrent joins: every connection sends one join for one room, as one
\* of two usernames, and the handlers interleave.
ConcurrentJoinPayloads == {"alice", "bob"} \X {"r1"}

ConcurrentJoinNext ==
    \E sid \in Sids :
        \/ \E p \in ConcurrentJoinPayloads : join_query_user(sid, p[1], p[2])
        \/ join_commit_user(sid)
        \/ join_query_record(sid)
        \/ join_commit_record(sid)
        \/ join_enter(sid)

SpecConcurrentJoin == Init /\ [][ConcurrentJoinNext]_vars

\* Concurrent acknowledgments: users enter a room, one message is posted
\* there, plain or ephemeral, before any acknowledgment, and every
\* connection sends one acknowledgment; the handlers of the acknowledgments
\* interleave.
ConcurrentSeenNext ==
    \E sid \in Sids :
        \/ \E p \in ConcurrentJoinPayloads :
              /\ messages = <<>>
              /\ on_join(sid, p[1], p[2])
        \/ \E delete_on_read, require_all_read \in BOOLEAN :
              /\ messages = <<>>
              /\ \A s \in Sids : tasks[s].pc = "idle"
              /\ handle_message(sid, "r1", json_dumps("e1"),
                                Expiry("absent", 0), <<>>,
                                delete_on_read, require_all_read)
        \/ \E msg_id \in 1 .. MaxMsgs : seen_query(sid, msg_id)
        \/ seen_commit_readers(sid)
        \/ seen_decide(sid)

SpecConcurrentSeen == Init /\ [][ConcurrentSeenNext]_vars

\* Storage failure: users enter a room; messages, plain and ephemeral, are
\* posted there, acknowledged, edited and deleted, and any commit of these
\* handlers may raise.
FailureNext ==
    \/ \E sid \in Sids :
        \/ \E p \in ConcurrentJoinPayloads : on_join(sid, p[1], p[2])
        \/ \E delete_on_read \in BOOLEAN :
              handle_message(sid, "r1", json_dumps("e1"), Expiry("absent", 0),
                             <<>>, delete_on_read, FALSE)
        \/ handle_message_fails(sid, "r1")
        \/ \E msg_id \in 1 .. MaxMsgs :
            \/ message_seen(sid, msg_id)
            \/ \E n \in 1 .. 2 : message_seen_fails(sid, msg_id, n)
    \/ \E msg_id \in 1 .. MaxMsgs :
        \/ delete_message(msg_id)
        \/ edit_message(msg_id, "e2")
        \/ route_fails("delete_failed", msg_id)
        \/ route_fails("edit_failed", msg_id)

SpecFailure == Init /\ [][FailureNext]_vars

\* Empty rosters: one user enters and leaves a room on any connection;
\* ephemeral messages that every user online must read are posted there
\* and acknowledged, before the user has entered, while the user is in the
\* room and after the user has left it.
EmptyRosterNext ==
    \E sid \in Sids :
        \/ \E p \in LifecycleJoinPayloads : on_join(sid, p[1], p[2])
        \/ \E p \in LifecycleJoinPayloads : on_leave(sid, p[1], p[2])
        \/ handle_message(sid, "r1", json_dumps("e1"), Expiry("absent", 0),
                          <<>>, TRUE, TRUE)
        \/ \E msg_id \in 1 .. MaxMsgs : message_seen(sid, msg_id)

SpecEmptyRoster == Init /\ [][EmptyRosterNext]_vars

\* Leaving: connections enter two rooms as one user, leave them, by the
\* name they entered as or by another and whether they are in the room or
\* not, and disconnect; one message is in the store at a time, posted and
\* acknowledged by connections that have entered, have left or have done
\* neither.
LeaveJoinPayloads == {"alice"} \X Rooms
LeavePayloads == LeaveJoinPayloads \cup {<<"bob", "r1">>}

LeaveNext ==
    \E sid \in Sids :
        \/ \E p \in LeaveJoinPayloads : on_join(sid, p[1], p[2])
        \/ \E p \in LeavePayloads : on_leave(sid, p[1], p[2])
        \/ on_disconnect(sid)
        \/ /\ messages = <<>>
           /\ handle_message(sid, "r1", json_dumps("e1"), Expiry("absent", 0),
                             <<>>, FALSE, FALSE)
        \/ \E msg_id \in 1 .. MaxMsgs : message_seen(sid, msg_id)

SpecLeave == Init /\ [][LeaveNext]_vars

\* ----------------------------------------------------------------- claims
\* The usernames that have a connection bound to the room: the connection
\* joined the room under that name and has neither left it nor disconnected.
BoundUsernames(room) == {joined[s][room] : s \in Members(room)}

\* Every username that a connection is bound to a room as is in the room's
\* roster.
BoundAreListed ==
    \A room \in Rooms : BoundUsernames(room) \subseteq RosterOf(room)

\* C1: after any sequence of join, leave and disconnect events, the roster
\* of every room holds exactly the usernames that have at least one
\* connection currently bound to the room; in particular a username stays in
\* the roster while any of its connections is still bound to the room.
\* Stated for the disconnect of one connection: the usernames that other
\* connections are still bound to a room as stay in that room's roster.
C1_BoundUsernameStaysListed ==
    [][ (last'.op = "disconnect" /\ BoundAreListed) => BoundAreListed' ]_vars

\* C2: a join of a username that the room's roster already lists leaves the
\* roster as it is and emits no status event; a join emits the status event
\* only when it newly adds the username to the roster.
C2_RejoinIsNotAnnounced ==
    [][ last'.op = "join" =>
          LET username == last'.username
              room == last'.room
              announced == \E i \in DOMAIN emitted' : emitted'[i].name = "status"
          IN /\ username \in RosterOf(room) =>
                  /\ rooms_users'[room] = rooms_users[room]
                  /\ ~announced
             /\ announced =>
                  /\ username \notin RosterOf(room)
                  /\ username \in rooms_users'[room] ]_vars

\* C2 witness: a join found the username in the roster already and emitted
\* the roster but no status event.
C2_Witness ==
    /\ last.op = "join"
    /\ last.flag
    /\ last.username \in RosterOf(last.room)
    /\ CountEvents("status") = 0
    /\ CountEvents("online_users") = 1

\* C10: a disconnect of a connection with no bound username changes neither
\* the connection map nor any roster and emits no event.
C10_DisconnectUnboundIsNoOp ==
    [][ (last'.op = "disconnect" /\ last'.sid \notin DOMAIN users) =>
          /\ users' = users
          /\ rooms_users' = rooms_users
          /\ emitted' = <<>> ]_vars

\* C10 witness: a connection with no bound username disconnected while some
\* roster was not empty.
C10_Witness ==
    /\ last.op = "disconnect"
    /\ ~last.flag
    /\ emitted = <<>>
    /\ \E room \in DOMAIN rooms_users : rooms_users[room] # {}

\* The row an acknowledgment step works on: the step is a message_seen for
\* message id, which is in the store before the step.
Acknowledged(id) ==
    /\ id \in DOMAIN messages
    /\ last'.op = "seen"
    /\ last'.id = id

\* The delete_message events for message id among the events emitted.
DeleteEvents(id) ==
    {i \in DOMAIN emitted :
        emitted[i].name = "delete_message" /\ emitted[i].id = id}

\* C3: for a message with delete_on_read and without require_all_read, an
\* acknowledgment by the author leaves the message in the store with its
\* read flag as it was; an acknowledgment by anyone else removes the message
\* and emits exactly one delete_message event for it.  The author is a
\* user who joined under a name.
C3_EphemeralAcknowledgment ==
    [][ \A id \in DOMAIN messages :
          (/\ Acknowledged(id)
           /\ messages[id].username \in Usernames
           /\ messages[id].delete_on_read
           /\ ~messages[id].require_all_read) =>
              IF last'.username = messages[id].username
              THEN /\ id \in DOMAIN messages'
                   /\ messages'[id].read = messages[id].read
              ELSE /\ id \notin DOMAIN messages'
                   /\ Cardinality(DeleteEvents(id)') = 1 ]_vars

\* C4: for a message with delete_on_read and require_all_read, an
\* acknowledgment deletes the message only when, with the acknowledger added
\* to readers, every username of the room's roster is a reader or the author;
\* while a roster member other than the author has not acknowledged, the
\* message stays.  When the roster is not empty and all of it has
\* acknowledged or is the author (the third of roster {A, B, C} acknowledges
\* A's message), the message is deleted.
C4_AllReadDeletion ==
    [][ \A id \in DOMAIN messages :
          (/\ Acknowledged(id)
           /\ messages[id].delete_on_read
           /\ messages[id].require_all_read) =>
              LET msg == messages[id]
                  roster == RosterOf(msg.room)
                  readers == Range(msg.readers) \cup {last'.username}
                  all_read == roster \subseteq (readers \cup {msg.username})
                  deleted == id \notin DOMAIN messages'
              IN /\ deleted => all_read
                 /\ (\E u \in roster : u # msg.username /\ u \notin readers)
                       => ~deleted
                 /\ (roster # {} /\ all_read) => deleted ]_vars

\* C4 witness: the roster is {A, B, C}, A wrote the message, B has just
\* acknowledged it and the message is still stored because C has not.
C4_Witness ==
    /\ last.op = "seen"
    /\ ~last.flag
    /\ last.id \in DOMAIN messages
    /\ LET msg == messages[last.id]
           roster == RosterOf(msg.room)
       IN /\ msg.delete_on_read
          /\ msg.require_all_read
          /\ Cardinality(roster) = 3
          /\ msg.username \in roster
          /\ last.username \in roster \ {msg.username}
          /\ msg.readers = <<last.username>>
          /\ \E c \in roster : c # msg.username /\ c \notin Range(msg.readers)

\* C5: a second acknowledgment of a message by a username that is already
\* among its readers, the message staying stored, leaves readers as it was;
\* readers never holds a username twice.
C5_AcknowledgeIdempotent ==
    [][ /\ \A id \in DOMAIN messages :
             (/\ Acknowledged(id)
              /\ last'.username \in Range(messages[id].readers)
              /\ id \in DOMAIN messages') =>
                 messages'[id].readers = messages[id].readers
        /\ \A id \in DOMAIN messages' :
             Cardinality(Range(messages'[id].readers))
               = Len(messages'[id].readers) ]_vars

\* C5 witness: a username that was already among the readers of a stored
\* message has acknowledged it again.
C5_Witness ==
    /\ last.op = "seen"
    /\ ~last.added
    /\ last.id \in DOMAIN messages
    /\ last.username \in Range(messages[last.id].readers)

\* The stored row of the message the last handler created.
Created == messages[last.id]

\* A message payload whose expires_at is a number of milliseconds at or
\* before the current time.
PastExpirySupplied ==
    /\ last.op = "message"
    /\ last.expires_at_ms.kind = "number"
    /\ last.expires_at_ms.ms <= now

\* Every stored message with an expiry expires strictly after its creation.
ExpiresAfterCreation ==
    \A id \in DOMAIN messages :
        messages[id].expires_at # NULL =>
            messages[id].expires_at > messages[id].created

\* C6: creating a message with a supplied expiry instant at or before the
\* current time stores it with expires_at = now + 1 second, never the
\* supplied value; every stored message created with an expiry instant
\* expires strictly after its creation.
C6_PastExpiryClamped ==
    /\ PastExpirySupplied => Created.expires_at = now + OneSecond
    /\ ExpiresAfterCreation

\* C6 as amended: a supplied expiry instant other than 0 that is at or before
\* the current time is stored as now + 1 second; a supplied 0, like a value
\* that cannot be converted to an instant, is taken as no expiry and the
\* message is stored with expires_at unset; every stored message that has an
\* expiry expires strictly after its creation.
C6_NonZeroPastExpiryClamped ==
    /\ (PastExpirySupplied /\ last.expires_at_ms.ms # 0) =>
          Created.expires_at = now + OneSecond
    /\ (PastExpirySupplied /\ last.expires_at_ms.ms = 0) =>
          Created.expires_at = NULL
    /\ (last.op = "message" /\ last.expires_at_ms.kind = "invalid") =>
          Created.expires_at = NULL
    /\ ExpiresAfterCreation

\* C6 witness: a message posted after the clock has advanced, with an expiry
\* instant that lies in the past, is stored with expires_at = now + 1 second.
C6_Witness ==
    /\ PastExpirySupplied
    /\ last.expires_at_ms.ms > 0
    /\ now > last.expires_at_ms.ms
    /\ Created.expires_at = now + OneSecond

\* The text contains a keyword of the denylist as it is written there.
ContainsDenylisted(text) == \E kw \in unsafe_keywords : Contains(text, kw)

\* C7: a message event whose plaintext preview contains a denylisted keyword
\* is rejected: the store is unchanged, no message event is emitted, and the
\* only event is one message_rejected sent to the sending connection.
C7_UnsafeContentRejected ==
    [][ (/\ last'.op \in {"message", "message_rejected"}
         /\ ContainsDenylisted(last'.plaintext)) =>
           /\ messages' = messages
           /\ Len(emitted') = 1
           /\ emitted'[1].name = "message_rejected"
           /\ emitted'[1].to = {last'.sid} ]_vars

\* C7 witness: a preview with a denylisted keyword was rejected while a
\* message was in the store.
C7_Witness ==
    /\ last.op = "message_rejected"
    /\ ContainsDenylisted(last.plaintext)
    /\ messages # <<>>
    /\ CountEvents("message_rejected") = 1
    /\ CountEvents("message") = 0

\* C8: a run of the expiry sweeper when no stored message has expires_at set
\* and at or before now deletes nothing and emits nothing.
C8_SweepWithoutExpiredIsNoOp ==
    [][ (/\ last'.op = "sweep"
         /\ \A id \in DOMAIN messages :
               ~(messages[id].expires_at # NULL
                 /\ messages[id].expires_at <= now)) =>
           /\ messages' = messages
           /\ emitted' = <<>> ]_vars

\* C8 witness: the sweeper ran and deleted nothing while a message with an
\* expiry still in the future was stored.
C8_Witness ==
    /\ last.op = "sweep"
    /\ ~last.flag
    /\ \E id \in DOMAIN messages :
          messages[id].expires_at # NULL /\ messages[id].expires_at > now

\* The last handler was a join of a user who had joined the room before, at
\* an earlier time.
Rejoined == last.op = "join" /\ last.prev # NULL /\ last.prev < now

\* The messages stored for a room.
StoredIn(room) == {id \in DOMAIN messages : messages[id].room = room}

\* C9: when a user joins a room at T1 and again at T2 > T1, the stored
\* join_time of (room, user) is T2 and the history query for that room and
\* user returns no message created before T2, while the room's messages stay
\* stored and are returned to queries without a username and to the other
\* users who joined before they were created.
C9_RejoinHidesOnlyOwnHistory ==
    Rejoined =>
        /\ JoinTime(last.room, last.username) = now
        /\ \A id \in get_messages(last.room, last.username).ids :
              messages[id].created >= now
        /\ get_messages(last.room, Missing)
              = [status |-> "ok", ids |-> StoredIn(last.room)]
        /\ \A other \in Usernames \ {last.username} :
              JoinTime(last.room, other) # NULL =>
                 get_messages(last.room, other)
                   = [status |-> "ok",
                      ids |-> {id \in StoredIn(last.room) :
                                 messages[id].created
                                   >= JoinTime(last.room, other)}]

\* C11: a stored message's read flag is true only if some acknowledgment of
\* the message has occurred: read = true implies that readers is not empty.
\* No operation sets read without adding or having a corresponding reader.
C11_ReadImpliesReader ==
    \A id \in DOMAIN messages :
        messages[id].read => messages[id].readers # <<>>

\* C12: the readers of every stored message exclude the message's author:
\* an acknowledgment sent by the author does not add the author's username
\* to readers.  The author is a user who joined under a name.
C12_ReadersExcludeAuthor ==
    \A id \in DOMAIN messages :
        messages[id].username \in Usernames =>
            messages[id].username \notin Range(messages[id].readers)

\* The messages a step removes from the store.
Removed == DOMAIN messages \ DOMAIN messages'

\* C13: every removal of a message from the store, by an acknowledgment, by
\* the delete route or by the expiry sweeper, comes in the same operation
\* with a delete_message event that carries the message's id and is
\* broadcast to the message's room.
C13_RemovalIsBroadcast ==
    [][ \A id \in Removed :
          \E i \in DOMAIN emitted' :
              /\ emitted'[i].name = "delete_message"
              /\ emitted'[i].id = id
              /\ emitted'[i].room = messages[id].room
              /\ emitted'[i].to = Members(messages[id].room) ]_vars

\* The number of events of one name for message id among those a step emits.
EmittedFor(name, id) ==
    Cardinality({i \in DOMAIN emitted' :
                   emitted'[i].name = name /\ emitted'[i].id = id})

\* C17: an acknowledgment emits a message_read event exactly when it did not
\* delete the message and the message's read flag was false before it, and
\* it then sets the flag; an acknowledgment that deletes the message emits
\* delete_message and no message_read; an acknowledgment of a message that
\* is already read emits no message_read.
C17_ReadAnnouncedOnce ==
    [][ \A id \in DOMAIN messages :
          Acknowledged(id) =>
              LET deleted == id \notin DOMAIN messages'
                  announced == EmittedFor("message_read", id)
              IN /\ announced = (IF ~deleted /\ ~messages[id].read
                                  THEN 1 ELSE 0)
                 /\ CountEvents("message_read")' = announced
                 /\ announced = 1 => messages'[id].read
                 /\ deleted => EmittedFor("delete_message", id) = 1
                 /\ ~deleted => CountEvents("delete_message")' = 0 ]_vars

\* C17 witness: a second user has acknowledged a message that the first
\* acknowledgment had marked read; the message is stored with both readers
\* and the acknowledgment emitted nothing.
C17_Witness ==
    /\ last.op = "seen"
    /\ last.added
    /\ ~last.flag
    /\ last.id \in DOMAIN messages
    /\ messages[last.id].read
    /\ Len(messages[last.id].readers) = 2
    /\ emitted = <<>>

\* C18: a run of the expiry sweeper removes exactly the stored messages
\* whose expires_at is set and at or before the run's now: none of them
\* remains, and every message with no expires_at or with expires_at after
\* now is still stored with all its fields unchanged.
C18_SweepRemovesExactlyExpired ==
    [][ last'.op = "sweep" =>
          \A id \in DOMAIN messages :
              IF /\ messages[id].expires_at # NULL
                 /\ messages[id].expires_at <= now
              THEN id \notin DOMAIN messages'
              ELSE /\ id \in DOMAIN messages'
                   /\ messages'[id] = messages[id] ]_vars

\* C18 witness: the sweeper ran after the clock had advanced, found an
\* expired message and left none in the store.
C18_Witness ==
    /\ last.op = "sweep"
    /\ last.flag
    /\ now > 0
    /\ \A id \in DOMAIN messages :
          messages[id].expires_at = NULL \/ messages[id].expires_at > now

\* The operations on a message id that is not in the store: the
\* acknowledgment changes nothing and emits nothing; the edit and delete
\* routes answer 404, change nothing and emit nothing.
MissingIdIsNoOp ==
    [][ /\ last'.op = "seen_missing" =>
              /\ messages' = messages
              /\ emitted' = <<>>
        /\ last'.op \in {"delete_missing", "edit_missing"} =>
              /\ last'.status = NotFound
              /\ messages' = messages
              /\ emitted' = <<>> ]_vars

\* The last operation removed message id from the store.
JustDeleted(id) ==
    /\ id \notin DOMAIN messages
    /\ last.id = id
    /\ \/ last.op = "delete"
       \/ last.op = "seen" /\ last.flag

\* C19: operations on a message id that is not in the store change no
\* state: message_seen for a missing id is a silent no-op, edit and delete
\* by a missing id return a not-found error, change no message and
\* broadcast nothing; once a message is deleted, its id is never in the
\* store again, and so not after the operation that follows the deletion.
C19_DeletedIdStaysMissing ==
    /\ MissingIdIsNoOp
    /\ [][ \A id \in 1 .. MaxMsgs :
             JustDeleted(id) => id \notin DOMAIN messages' ]_vars

\* The columns of a message other than its content.
KeptByEdit ==
    {"room", "username", "readers", "read", "delivered", "expires_at",
     "delete_on_read", "require_all_read", "timestamp"}

\* C20: every message that handle_message stores starts with delivered =
\* true, read = false and no readers, and its creation emits exactly one
\* message event, to the message's room; an edit of a stored message
\* replaces its content and leaves its room, author, readers, read,
\* delivered, expires_at, delete_on_read and require_all_read, and every
\* other message, unchanged.
C20_CreateAndEditFrame ==
    [][ /\ last'.op = "message" =>
              LET id == last'.id
                  row == messages'[id]
              IN /\ id \notin DOMAIN messages
                 /\ row.delivered
                 /\ ~row.read
                 /\ row.readers = <<>>
                 /\ Len(emitted') = 1
                 /\ emitted'[1].name = "message"
                 /\ emitted'[1].id = id
                 /\ emitted'[1].room = row.room
                 /\ emitted'[1].to = Members(row.room)
        /\ last'.op = "edit" =>
              LET id == last'.id
              IN /\ id \in DOMAIN messages
                 /\ DOMAIN messages' = DOMAIN messages
                 /\ \A f \in KeptByEdit :
                       messages'[id][f] = messages[id][f]
                 /\ messages'[id].content
                       \in {json_dumps(m) : m \in EditPayloads \ {Missing}}
                 /\ \A other \in DOMAIN messages \ {id} :
                       messages'[other] = messages[other] ]_vars

\* C20 witness: a message that was acknowledged and marked read has been
\* edited: it holds the new content, its reader and its read flag.
C20_Witness ==
    /\ last.op = "edit"
    /\ last.id \in DOMAIN messages
    /\ messages[last.id].content = json_dumps("e2")
    /\ messages[last.id].read
    /\ messages[last.id].readers # <<>>
    /\ CountEvents("editmessage") = 1

\* Two connections whose handlers of one kind have both ended normally.
BothDone(op, s1, s2) ==
    /\ s1 # s2
    /\ tasks[s1].op = op /\ tasks[s1].pc = "done"
    /\ tasks[s2].op = op /\ tasks[s2].pc = "done"

C15_NoLostRosterEntry ==
    \A s1, s2 \in Sids :
        (BothDone("join", s1, s2) /\ tasks[s1].room = tasks[s2].room) =>
            IF tasks[s1].username # tasks[s2].username
            THEN {tasks[s1].username, tasks[s2].username}
                    \subseteq RosterOf(tasks[s1].room)
            ELSE ~(tasks[s1].announced /\ tasks[s2].announced)

\* C15 witness: the join handlers of two connections for two usernames and
\* one room ran at the same time and have both ended; the roster holds the
\* two usernames.
C15_Witness ==
    \E s1, s2 \in Sids :
        /\ BothDone("join", s1, s2)
        /\ tasks[s1].raced /\ tasks[s2].raced
        /\ tasks[s1].room = tasks[s2].room
        /\ tasks[s1].username # tasks[s2].username
        /\ tasks[s1].announced /\ tasks[s2].announced
        /\ RosterOf(tasks[s1].room)
              = {tasks[s1].username, tasks[s2].username}

\* The operations that ended with a commit that raised.
FailedOps == {"message_failed", "seen_failed", "delete_failed", "edit_failed"}

\* The state an event tells of is in the store.
Committed(event, store) ==
    CASE event.name = "message" -> event.id \in DOMAIN store
      [] event.name = "delete_message" -> event.id \notin DOMAIN store
      [] event.name = "message_read" ->
            event.id \in DOMAIN store /\ store[event.id].read
      [] event.name = "editmessage" -> event.id \in DOMAIN store
      [] OTHER -> TRUE

\* C16: no event is broadcast for a state that is not committed: in the
\* create, acknowledge, edit and delete flows every message, message_read,
\* editmessage and delete_message event is emitted after the commit it
\* tells of has succeeded, and when a commit fails no event of the operation
\* is emitted and no change of the operation is in the store.
C16_FailedCommitLeavesNoTrace ==
    [][ /\ \A i \in DOMAIN emitted' : Committed(emitted'[i], messages')
        /\ last'.op \in FailedOps =>
              /\ emitted' = <<>>
              /\ messages' = messages ]_vars

\* C21: for a message with delete_on_read and require_all_read, an
\* acknowledgment that arrives while the roster of the message's room is
\* empty, or while the room has no roster, never deletes the message, though
\* the empty roster is within readers and the author: the message stays
\* stored with the acknowledger among its readers and read set, nothing
\* else of it changes, and no delete_message is emitted.
C21_EmptyRosterNeverDeletes ==
    [][ \A id \in DOMAIN messages :
          (/\ Acknowledged(id)
           /\ messages[id].delete_on_read
           /\ messages[id].require_all_read
           /\ RosterOf(messages[id].room) = {}) =>
              /\ id \in DOMAIN messages'
              /\ Range(messages'[id].readers)
                    = Range(messages[id].readers) \cup {last'.username}
              /\ messages'[id].read
              /\ messages'[id]
                    = [messages[id] EXCEPT !.readers = messages'[id].readers,
                                           !.read = TRUE]
              /\ CountEvents("delete_message")' = 0 ]_vars

\* C21 witness: everyone has left the room, whose roster is there and
\* empty; an ephemeral message that every user online must read has just
\* been acknowledged and is still stored, read, with the acknowledger among
\* its readers.
C21_Witness ==
    /\ last.op = "seen"
    /\ ~last.flag
    /\ last.added
    /\ last.id \in DOMAIN messages
    /\ LET msg == messages[last.id]
       IN /\ msg.delete_on_read
          /\ msg.require_all_read
          /\ msg.room \in DOMAIN rooms_users
          /\ rooms_users[msg.room] = {}
          /\ msg.read
          /\ last.username \in Range(msg.readers)

\* The connection has left a room and not entered one since: users does
\* not hold it, and it is still in another room it entered.
LeftOneRoom(sid) == sid \notin DOMAIN users /\ joined[sid] # <<>>

\* C22: a leave with a username and a room always unbinds the sending
\* connection, whichever room it names and whether or not the username was
\* in that room's roster; the disconnect of a connection that is unbound
\* changes no roster and emits nothing, even when the username it entered
\* another room as is still in that room's roster; the messages and the
\* acknowledgments of an unbound connection are attributed to "Unknown".
C22_LeaveUnbindsConnection ==
    [][ /\ last'.op = "leave" => last'.sid \notin DOMAIN users'
        /\ \A sid \in Sids \ DOMAIN users :
              /\ (last'.op = "disconnect" /\ last'.sid = sid) =>
                    /\ rooms_users' = rooms_users
                    /\ emitted' = <<>>
              /\ (last'.op = "message" /\ last'.sid = sid) =>
                    messages'[last'.id].username = Unknown
              /\ (last'.op = "seen" /\ last'.sid = sid) =>
                    /\ last'.username = Unknown
                    /\ last'.id \in DOMAIN messages' =>
                          Unknown \in Range(messages'[last'.id].readers) ]_vars

\* C22 witness: a connection entered two rooms as alice and left one of
\* them; the message it sent after that is stored under the author
\* "Unknown", while alice is still in the roster of the other room.
C22_Witness ==
    /\ last.op = "message"
    /\ LeftOneRoom(last.sid)
    /\ messages[last.id].username = Unknown
    /\ \E room \in DOMAIN joined[last.sid] :
          joined[last.sid][room] \in RosterOf(room)

=============================================================================
